---- MODULE Spec2Model ----
(***************************************************************************)
(* Model of validate_package.py: the batch driver, main(), and the helpers  *)
(* unpack_archive, unpacked_archive_name and validate_package.              *)
(*                                                                          *)
(* Python strings are sequences of one-character strings, so that split,    *)
(* endswith, slicing and lower() are computed as the code computes them.    *)
(***************************************************************************)
EXTENDS Integers, Sequences, FiniteSets, TLC

(* ---------------------------------------------------------------------- *)
(* Bounds                                                                  *)
(* ---------------------------------------------------------------------- *)
MaxArgs == 2

(* ---------------------------------------------------------------------- *)
(* Python string helpers                                                   *)
(* ---------------------------------------------------------------------- *)
None == <<>>

RECURSIVE LastIndexOf(_, _, _)
LastIndexOf(s, c, k) ==
    IF k = 0 THEN 0
    ELSE IF s[k] = c THEN k
    ELSE LastIndexOf(s, c, k - 1)

RECURSIVE FirstIndexOf(_, _, _)
FirstIndexOf(s, c, k) ==
    IF k > Len(s) THEN 0
    ELSE IF s[k] = c THEN k
    ELSE FirstIndexOf(s, c, k + 1)

\* s.split(c)[-1]
SplitLast(s, c) == SubSeq(s, LastIndexOf(s, c, Len(s)) + 1, Len(s))

\* s.split(c)[0]
SplitFirst(s, c) ==
    IF FirstIndexOf(s, c, 1) = 0 THEN s
    ELSE SubSeq(s, 1, FirstIndexOf(s, c, 1) - 1)

\* s.endswith(suf)
EndsWith(s, suf) ==
    /\ Len(s) >= Len(suf)
    /\ SubSeq(s, Len(s) - Len(suf) + 1, Len(s)) = suf

\* c.lower() for one character of the alphabet in use
LowerChar(c) ==
    CASE c = "A" -> "a"
      [] c = "B" -> "b"
      [] OTHER   -> c

\* s.lower()
Lower(s) == [k \in DOMAIN s |-> LowerChar(s[k])]

\* os.path.join(a, b) for a relative b
join(a, b) == a \o <<"/">> \o b

(* ---------------------------------------------------------------------- *)
(* Literals of the program                                                 *)
(* ---------------------------------------------------------------------- *)
unpack_dir  == <<"_", "u">>
archive_dir == <<"_", "a">>
tries == 5

\* the suffixes tested by unpack_archive
Sgz  == <<"g", "z">>
Sbz2 == <<"b", "z", "2">>
Szip == <<"z", "i", "p">>

(* ---------------------------------------------------------------------- *)
(* Input domains: package names, metadata records, remote archives         *)
(* ---------------------------------------------------------------------- *)
PkgAb  == <<"a", "b">>
PkgAb2 == <<"a", "b", "2">>
PkgBa  == <<"B", "a">>
Packages == {PkgAb, PkgAb2, PkgBa}

TarGz  == <<".", "t", "a", "r", ".", "g", "z">>
TarBz2 == <<".", "t", "a", "r", ".", "b", "z", "2">>
Zip    == <<".", "z", "i", "p">>
Rar    == <<".", "r", "a", "r">>

\* values of the ArchiveFormats field (space separated)
FormatLists == {TarGz \o <<" ">> \o Zip, Zip, TarBz2, Rar \o <<" ">> \o TarGz}

\* value of the ArchiveURL field of a package
ArchiveURLOf(p) == <<"h", "/">> \o p \o <<"-", "1">>

\* name of the single top-level directory inside a package's archives
TopDirOf(p) ==
    IF p = PkgAb THEN <<"A", "b", "-", "1">> ELSE p \o <<"-", "1">>

\* content of PackageInfo.g inside a package's archives
ManifestOf(p) ==
    CASE p = PkgAb  -> 1
      [] p = PkgAb2 -> 2
      [] OTHER      -> 3

\* content (bytes) of the archive file served for a package in a format
ArchiveBytesOf(p, f) ==
    10 * ManifestOf(p) + (CASE f = TarGz -> 1 [] f = TarBz2 -> 2
                            [] f = Zip -> 3 [] OTHER -> 4)

\* hash of a content; injective on the contents in use, not the identity
Digest(c) == (37 * c + 11) % 101

\* the records a package's meta.json may hold; content 0 is neither a
\* manifest nor an archive of the domain, so its digest is a wrong hash
MetadataRecords(p) ==
    UNION { { [ArchiveURL |-> ArchiveURLOf(p), ArchiveFormats |-> fl,
               PackageInfoSHA256 |-> Digest(m), ArchiveSHA256 |-> Digest(a)] :
                m \in {ManifestOf(p), 0},
                a \in {ArchiveBytesOf(p, SplitFirst(fl, " ")), 0} } :
            fl \in FormatLists }

NoJson == [ArchiveURL |-> None, ArchiveFormats |-> None,
           PackageInfoSHA256 |-> 0, ArchiveSHA256 |-> 0]

\* sys.argv[1:]
ArgLists == UNION { [1..n -> Packages] : n \in 1..MaxArgs }

\* all orders in which os.listdir may return a set of names
Orders(S) ==
    { o \in [1..Cardinality(S) -> S] :
        \A a, b \in 1..Cardinality(S) : a # b => o[a] # o[b] }

(* ---------------------------------------------------------------------- *)
(* State                                                                   *)
(* ---------------------------------------------------------------------- *)
VARIABLES
    args,          \* sys.argv[1:]
    i,             \* number of main() calls started by the driver loop
    pc,            \* position of the process
    pkg_name,      \* main: argument
    pkg_json,      \* main: metadata record
    fmt,           \* main: first archive format
    url,           \* main: download URL
    packed_name,   \* main: local path of the archive
    unpacked_name, \* main: resolved unpacked directory, or None
    result,        \* value returned by validate_package
    checks,        \* validate_package: outcome of each evaluated comparison
    rc,            \* exit code returned by gap_exec (-1: not invoked)
    archives,      \* files in _archives: set of [path, bytes, members]
    dirExists,     \* whether _unpacked_archives exists
    staging,       \* children of _unpacked_archives: set of [name, owner, manifest]
    listing,       \* the last os.listdir(unpack_dir) result
    metaOld,       \* packages p for which p/meta.json.old exists
    meta,          \* p/meta.json as read so far: package -> record, NoJson if unread
    console,       \* lines written by notice() and warning()
    runStart,      \* Len(console) when the current main() call began
    steps,         \* calls made by the current main() call, in order
    fetched,       \* URLs downloaded by the current main() call, in order
    stagingBefore, \* staging as it was when unpack_archive was entered
    exc            \* the uncaught exception that ended the process, if any

vars == <<args, i, pc, pkg_name, pkg_json, fmt, url, packed_name,
          unpacked_name, result, checks, rc, archives, dirExists, staging,
          listing, metaOld, meta, console, runStart, steps, fetched, stagingBefore,
          exc>>

\* the name of the manifest file inside an unpacked directory
PackageInfoG == <<"P">>

Line(level, p, msg) == [level |-> level, pkg |-> p, msg |-> msg]

\* lines written by the current (or last) main() call
RunLines == SubSeq(console, runStart + 1, Len(console))

NoChecks == [info |-> "none", archive |-> "none", old |-> "none"]

(* ---------------------------------------------------------------------- *)
(* File system reads                                                       *)
(* ---------------------------------------------------------------------- *)
\* os.path.exists(path) for a path in _archives
ArchiveExists(path) == \E a \in archives : a.path = path

\* content of a file that exists: an archive, or <dir>/PackageInfo.g
ReadFile(path) ==
    IF ArchiveExists(path)
    THEN (CHOOSE a \in archives : a.path = path).bytes
    ELSE (CHOOSE e \in staging :
             join(join(unpack_dir, e.name), PackageInfoG) = path).manifest

\* scan_for_updates.sha256(fname)
sha256(fname) == Digest(ReadFile(fname))

\* scan_for_updates.metadata(pkg_name): the content of the package's
\* meta.json, which does not change while the process runs
metadata(p) == IF meta[p] = NoJson THEN MetadataRecords(p) ELSE {meta[p]}

(* ---------------------------------------------------------------------- *)
(* Pure parts of the functions                                             *)
(* ---------------------------------------------------------------------- *)
\* variant of first_format: the last listed format, split(" ")[-1]
first_format_last(formats) == SplitLast(formats, " ")

\* main, line 120: pkg_json["ArchiveFormats"].split(" ")[0]
first_format(formats) == SplitFirst(formats, " ")

\* main, line 123
local_path(archive_url, f) == join(archive_dir, SplitLast(archive_url, "/") \o f)

\* unpack_archive, line 54
extension(archive_fname) == SplitLast(archive_fname, ".")

\* unpack_archive, lines 61 and 64
is_tar(ext) == EndsWith(ext, Sgz) \/ EndsWith(ext, Sbz2)
is_zip(ext) == EndsWith(ext, Szip)

\* top-level members of the archive served for a package (owner: that package)
Members(p) == { [name |-> TopDirOf(p), owner |-> p, manifest |-> ManifestOf(p)] }

\* extractall: members replace children of the same name
extractall(dir, members) ==
    { e \in dir : \A m \in members : m.name # e.name } \cup members

\* unpacked_archive_name, line 77
matches(x, p) == Len(x) >= Len(p) /\ Lower(SubSeq(x, 1, Len(p))) = p

\* unpacked_archive_name, lines 76-79: first match of the listing, or None
RECURSIVE first_match(_, _, _)
first_match(names, p, k) ==
    IF k > Len(names) THEN None
    ELSE IF matches(names[k], p) THEN join(unpack_dir, names[k])
    ELSE first_match(names, p, k + 1)

\* variant of validate_result: each check assigns its outcome to result, so
\* the last check decides
validate_result_last(c1, c2, c3) == c3

\* validate_package, lines 83-110: the returned value
validate_result(c1, c2, c3) == c1 /\ c2 /\ c3

\* variant of validate_warnings: the checks are chained with elif, so only
\* the first failing check writes its warning
validate_warnings_first(p, c1, c2, c3) ==
    IF ~c1 THEN <<Line("warning", p, "PackageInfoSHA256 mismatch")>>
    ELSE IF ~c2 THEN <<Line("warning", p, "ArchiveSHA256 mismatch")>>
    ELSE IF ~c3 THEN <<Line("warning", p, "meta.yml.old is missing")>>
    ELSE <<>>

\* validate_package, lines 86-108: the warnings, in the order written
validate_warnings(p, c1, c2, c3) ==
    (IF c1 THEN <<>> ELSE <<Line("warning", p, "PackageInfoSHA256 mismatch")>>)
    \o (IF c2 THEN <<>> ELSE <<Line("warning", p, "ArchiveSHA256 mismatch")>>)
    \o (IF c3 THEN <<>> ELSE <<Line("warning", p, "meta.yml.old is missing")>>)

\* variant of invoke_validator: the result of validate_package is ignored
invoke_validator_always(res) == TRUE

\* main, line 129: whether the external validator is run
invoke_validator(res) == res

\* variant of verdict: the comparison of the exit code is inverted
verdict_inverted(p, code) ==
    IF code = 0 THEN Line("warning", p, "validation FAILED!")
    ELSE Line("notice", p, "validated ok!")

\* main, lines 136-147: the verdict line for an exit code
verdict(p, code) ==
    IF code # 0 THEN Line("warning", p, "validation FAILED!")
    ELSE Line("notice", p, "validated ok!")

\* exit codes the external validator may return
ExitCodes == {0, 1, 2}

(* ---------------------------------------------------------------------- *)
(* Initial state                                                           *)
(* ---------------------------------------------------------------------- *)
Init ==
    /\ args \in ArgLists
    /\ metaOld \in SUBSET Packages
    /\ meta = [p \in Packages |-> NoJson]
    /\ dirExists \in BOOLEAN
    /\ i = 0
    /\ pc = "loop"
    /\ pkg_name = None
    /\ pkg_json = NoJson
    /\ fmt = None
    /\ url = None
    /\ packed_name = None
    /\ unpacked_name = None
    /\ result = FALSE
    /\ checks = NoChecks
    /\ rc = -1
    /\ archives = {}
    /\ staging = {}
    /\ listing = <<>>
    /\ console = <<>>
    /\ runStart = 0
    /\ steps = <<>>
    /\ fetched = <<>>
    /\ stagingBefore = {}
    /\ exc = "none"

(* ---------------------------------------------------------------------- *)
(* Actions                                                                 *)
(* ---------------------------------------------------------------------- *)
\* __main__ loop, lines 150-152, entering main(), lines 114-123
main ==
    /\ pc = "loop"
    /\ i < Len(args)
    /\ i' = i + 1
    /\ pkg_name' = args[i + 1]
    /\ \E rec \in metadata(args[i + 1]) :
          /\ meta' = [meta EXCEPT ![args[i + 1]] = rec]
          /\ pkg_json' = rec
          /\ fmt' = first_format(rec.ArchiveFormats)
          /\ url' = rec.ArchiveURL \o first_format(rec.ArchiveFormats)
          /\ packed_name' = local_path(rec.ArchiveURL, first_format(rec.ArchiveFormats))
    /\ unpacked_name' = None
    /\ result' = FALSE
    /\ checks' = NoChecks
    /\ rc' = -1
    /\ runStart' = Len(console)
    /\ steps' = <<>>
    /\ fetched' = <<>>
    /\ pc' = "download"
    /\ UNCHANGED <<args, archives, dirExists, staging, listing, metaOld,
                   console, stagingBefore, exc>>

\* scan_for_updates.download_archive(pkg_name, url, packed_name, tries=5), line 124
download_archive ==
    /\ pc = "download"
    /\ steps' = Append(steps, "download_archive")
    /\ IF ArchiveExists(packed_name)
       THEN /\ console' = Append(console, Line("notice", pkg_name, "already exists, not downloading again"))
            /\ pc' = "unpack"
            /\ UNCHANGED <<archives, fetched, exc>>
       ELSE \E failures \in 0..tries :
              IF failures < tries
              THEN /\ archives' = archives \cup
                        {[path |-> packed_name,
                          bytes |-> ArchiveBytesOf(pkg_name, fmt),
                          members |-> Members(pkg_name)]}
                   /\ fetched' = Append(fetched, url)
                   /\ console' = Append(console, Line("notice", pkg_name, "downloading"))
                   /\ pc' = "unpack"
                   /\ UNCHANGED exc
              ELSE /\ pc' = "crashed"
                   /\ exc' = "download failed"
                   /\ console' = Append(console, Line("notice", pkg_name, "downloading"))
                   /\ UNCHANGED <<archives, fetched>>
    /\ UNCHANGED <<args, i, pkg_name, pkg_json, fmt, url, packed_name,
                   unpacked_name, result, checks, rc, dirExists, staging,
                   listing, metaOld, meta, runStart, stagingBefore>>

\* unpack_archive(unpack_dir, pkg_name, packed_name), lines 51-72
unpack_archive ==
    /\ pc = "unpack"
    /\ steps' = Append(steps, "unpack_archive")
    /\ stagingBefore' = staging
    /\ dirExists' = TRUE
    /\ LET ext == extension(packed_name)
           file == CHOOSE a \in archives : a.path = packed_name
       IN  IF is_tar(ext) \/ is_zip(ext)
           THEN /\ staging' = extractall(staging, file.members)
                /\ console' = Append(console, Line("notice", pkg_name, "unpacking"))
           ELSE /\ staging' = staging
                /\ console' = console \o <<Line("notice", pkg_name, "unpacking"),
                                           Line("notice", pkg_name, "bad archive extension")>>
    /\ pc' = "resolve"
    /\ UNCHANGED <<args, i, pkg_name, pkg_json, fmt, url, packed_name,
                   unpacked_name, result, checks, rc, archives, listing,
                   metaOld, meta, runStart, fetched, exc>>

\* unpacked_archive_name(unpack_dir, pkg_name), lines 75-79
unpacked_archive_name ==
    /\ pc = "resolve"
    /\ steps' = Append(steps, "unpacked_archive_name")
    /\ \E o \in Orders({e.name : e \in staging}) :
          /\ listing' = o
          /\ unpacked_name' = first_match(o, pkg_name, 1)
          /\ console' = IF first_match(o, pkg_name, 1) = None
                        THEN Append(console, Line("warning", <<"{", "}">>,
                                 "couldn't determine the unpacked archive directory!"))
                        ELSE console
    /\ pc' = "validate"
    /\ UNCHANGED <<args, i, pkg_name, pkg_json, fmt, url, packed_name, result,
                   checks, rc, archives, dirExists, staging, metaOld, meta, runStart,
                   fetched, stagingBefore, exc>>

\* validate_package(pkg_name, unpacked_name, packed_name, pkg_json), lines 82-110
validate_package ==
    /\ pc = "validate"
    /\ steps' = Append(steps, "validate_package")
    /\ IF unpacked_name = None
       THEN \* line 84: join(None, "PackageInfo.g") raises TypeError
            /\ pc' = "crashed"
            /\ exc' = "TypeError"
            /\ UNCHANGED <<result, checks, console>>
       ELSE LET c1 == pkg_json.PackageInfoSHA256 = sha256(join(unpacked_name, PackageInfoG))
                c2 == pkg_json.ArchiveSHA256 = sha256(packed_name)
                c3 == pkg_name \in metaOld
            IN  /\ checks' = [info    |-> IF c1 THEN "pass" ELSE "fail",
                              archive |-> IF c2 THEN "pass" ELSE "fail",
                              old     |-> IF c3 THEN "pass" ELSE "fail"]
                /\ console' = console \o validate_warnings(pkg_name, c1, c2, c3)
                /\ result' = validate_result(c1, c2, c3)
                /\ pc' = "branch"
                /\ UNCHANGED exc
    /\ UNCHANGED <<args, i, pkg_name, pkg_json, fmt, url, packed_name,
                   unpacked_name, rc, archives, dirExists, staging, listing,
                   metaOld, meta, runStart, fetched, stagingBefore>>

\* main, lines 129-147: validate_package returned true; gap_exec and the verdict
gap_exec ==
    /\ pc = "branch"
    /\ invoke_validator(result)
    /\ steps' = Append(steps, "gap_exec")
    /\ \E code \in ExitCodes :
          /\ rc' = code
          /\ console' = Append(console, verdict(pkg_name, code))
    /\ pc' = "loop"
    /\ UNCHANGED <<args, i, pkg_name, pkg_json, fmt, url, packed_name,
                   unpacked_name, result, checks, archives, dirExists, staging,
                   listing, metaOld, meta, runStart, fetched, stagingBefore, exc>>

\* variant of main_return: an else branch reports the failed validation
main_return_reporting ==
    /\ pc = "branch"
    /\ ~invoke_validator(result)
    /\ console' = Append(console, Line("warning", pkg_name, "validation FAILED!"))
    /\ pc' = "loop"
    /\ UNCHANGED <<args, i, pkg_name, pkg_json, fmt, url, packed_name,
                   unpacked_name, result, checks, rc, archives, dirExists,
                   staging, listing, metaOld, meta, runStart, steps,
                   fetched, stagingBefore, exc>>

\* main, line 129: validate_package returned false; main returns
main_return ==
    /\ pc = "branch"
    /\ ~invoke_validator(result)
    /\ pc' = "loop"
    /\ UNCHANGED <<args, i, pkg_name, pkg_json, fmt, url, packed_name,
                   unpacked_name, result, checks, rc, archives, dirExists,
                   staging, listing, metaOld, meta, console, runStart, steps,
                   fetched, stagingBefore, exc>>

\* __main__ loop, line 151: the range is exhausted
finish ==
    /\ pc = "loop"
    /\ i = Len(args)
    /\ pc' = "done"
    /\ UNCHANGED <<args, i, pkg_name, pkg_json, fmt, url, packed_name,
                   unpacked_name, result, checks, rc, archives, dirExists,
                   staging, listing, metaOld, meta, console, runStart, steps,
                   fetched, stagingBefore, exc>>

Next ==
    \/ main
    \/ download_archive
    \/ unpack_archive
    \/ unpacked_archive_name
    \/ validate_package
    \/ gap_exec
    \/ main_return
    \/ finish

Spec == Init /\ [][Next]_vars

(* ---------------------------------------------------------------------- *)
(* Vocabulary of the properties                                            *)
(* ---------------------------------------------------------------------- *)
\* the current main() call has made the named call
InSteps(name) == \E k \in DOMAIN steps : steps[k] = name

\* number of lines of the current main() call with the given text
CountMsg(msg) == Cardinality({k \in DOMAIN RunLines : RunLines[k].msg = msg})

\* validate_package was called by the current main() call and has returned
ValidateReturned == InSteps("validate_package") /\ exc = "none"

\* the last started main() call has returned
RunCompleted == pc \in {"loop", "done"} /\ i > 0

\* the three facts compared by field validation, read off the file system
ManifestHashOK ==
    \E e \in staging : /\ join(unpack_dir, e.name) = unpacked_name
                       /\ Digest(e.manifest) = pkg_json.PackageInfoSHA256
ArchiveHashOK ==
    \E a \in archives : /\ a.path = packed_name
                        /\ Digest(a.bytes) = pkg_json.ArchiveSHA256
SnapshotOK == pkg_name \in metaOld

\* number of verdict lines written by the current main() call
Verdicts == CountMsg("validated ok!") + CountMsg("validation FAILED!")

\* x starts with p, compared case-insensitively
CIStartsWith(x, p) ==
    Len(x) >= Len(p) /\ Lower(SubSeq(x, 1, Len(p))) = Lower(p)

\* the extension of the archive is one unpack_archive extracts
Supported == \E f \in {TarGz, TarBz2, Zip} : EndsWith(packed_name, f)

MainOrder == <<"download_archive", "unpack_archive", "unpacked_archive_name",
               "validate_package", "gap_exec">>

(* ---------------------------------------------------------------------- *)
(* C1                                                                      *)
(* ---------------------------------------------------------------------- *)
\* C1: whenever validate_package has returned, its result is true if and
\* only if the manifest hash matches, the archive hash matches and
\* <package>/meta.json.old exists.
C1_PassIffAllChecks ==
    ValidateReturned =>
        (result <=> (ManifestHashOK /\ ArchiveHashOK /\ SnapshotOK))

C1_Witness ==
    /\ pc = "branch"
    /\ result
    /\ ManifestHashOK /\ ArchiveHashOK /\ SnapshotOK

(* ---------------------------------------------------------------------- *)
(* C2                                                                      *)
(* ---------------------------------------------------------------------- *)
\* C2: whenever validate_package has returned, all three comparisons were
\* evaluated and each failing comparison has written exactly one warning of
\* its own, each passing comparison none, whatever the other two did.
C2_WarningsAreFailingChecks ==
    ValidateReturned =>
        /\ checks.info # "none" /\ checks.archive # "none" /\ checks.old # "none"
        /\ CountMsg("PackageInfoSHA256 mismatch") = IF ManifestHashOK THEN 0 ELSE 1
        /\ CountMsg("ArchiveSHA256 mismatch") = IF ArchiveHashOK THEN 0 ELSE 1
        /\ CountMsg("meta.yml.old is missing") = IF SnapshotOK THEN 0 ELSE 1

C2_Witness ==
    /\ pc = "branch"
    /\ ~ManifestHashOK /\ ~ArchiveHashOK /\ ~SnapshotOK
    /\ CountMsg("PackageInfoSHA256 mismatch") = 1
    /\ CountMsg("ArchiveSHA256 mismatch") = 1
    /\ CountMsg("meta.yml.old is missing") = 1

(* ---------------------------------------------------------------------- *)
(* C3                                                                      *)
(* ---------------------------------------------------------------------- *)
\* C3: the calls of one main() run are a prefix of acquisition, extraction,
\* directory resolution, field validation, external validator; the external
\* validator is called at most once and only when field validation of the
\* same run has returned true.
C3_OrderAndGuard ==
    /\ Len(steps) <= Len(MainOrder)
    /\ steps = SubSeq(MainOrder, 1, Len(steps))
    /\ InSteps("gap_exec") => (ValidateReturned /\ result)
    /\ (RunCompleted /\ ~result) => ~InSteps("gap_exec")

C3_Witness ==
    /\ steps = MainOrder
    /\ result

(* ---------------------------------------------------------------------- *)
(* C4                                                                      *)
(* ---------------------------------------------------------------------- *)
\* C4: once the external validator has been called, exit code zero has
\* written the notice "validated ok!" and a non-zero exit code the warning
\* "validation FAILED!", as the last line of the run; "validated ok!" is
\* written only when field validation passed and the exit code was zero.
C4_ExitCodeDecides ==
    /\ InSteps("gap_exec") =>
          /\ rc = 0 => /\ RunLines[Len(RunLines)] = Line("notice", pkg_name, "validated ok!")
                       /\ CountMsg("validation FAILED!") = 0
          /\ rc # 0 => /\ RunLines[Len(RunLines)] = Line("warning", pkg_name, "validation FAILED!")
                       /\ CountMsg("validated ok!") = 0
    /\ CountMsg("validated ok!") > 0 =>
          /\ result /\ rc = 0
          /\ ManifestHashOK /\ ArchiveHashOK /\ SnapshotOK

C4_Witness ==
    /\ InSteps("gap_exec")
    /\ rc = 2
    /\ CountMsg("validation FAILED!") = 1

(* ---------------------------------------------------------------------- *)
(* C5                                                                      *)
(* ---------------------------------------------------------------------- *)
\* C5 as stated: every completed run has written exactly one verdict line.
C5_OneVerdictPerRun ==
    RunCompleted => Verdicts = 1

\* C5 as amended: a completed run has written exactly one verdict line when
\* field validation passed, and none when field validation failed; in that
\* case the warnings of the failing checks are the only report.
C5_VerdictOnlyAfterPass ==
    RunCompleted =>
        /\ result => Verdicts = 1
        /\ ~result =>
              /\ Verdicts = 0
              /\ CountMsg("PackageInfoSHA256 mismatch")
                   + CountMsg("ArchiveSHA256 mismatch")
                   + CountMsg("meta.yml.old is missing") >= 1

C5_Witness ==
    /\ RunCompleted
    /\ ManifestHashOK /\ ArchiveHashOK /\ ~SnapshotOK
    /\ CountMsg("meta.yml.old is missing") = 1
    /\ Verdicts = 0

(* ---------------------------------------------------------------------- *)
(* C6                                                                      *)
(* ---------------------------------------------------------------------- *)
\* C6 as stated: however a package's run fails, the runs of all later names
\* are started, so the process never ends before main() was started for
\* every argument.
C6_LaterRunsStarted ==
    pc \in {"done", "crashed"} => i = Len(args)

(* ---------------------------------------------------------------------- *)
(* C7                                                                      *)
(* ---------------------------------------------------------------------- *)
\* C7 as stated: the directory resolved for a package is one extracted from
\* that package's own archive, whatever was unpacked into the staging
\* directory before.
C7_ResolvedIsOwn ==
    (InSteps("unpacked_archive_name") /\ unpacked_name # None) =>
        \A e \in staging :
            join(unpack_dir, e.name) = unpacked_name => e.owner = pkg_name

(* ---------------------------------------------------------------------- *)
(* C8                                                                      *)
(* ---------------------------------------------------------------------- *)
\* C8 as stated: resolution returns the first listed child whose name starts
\* with the package name compared case-insensitively, whatever the letter
\* case of either, and returns no match only when there is no such child.
C8_FirstCaseInsensitiveMatch ==
    InSteps("unpacked_archive_name") =>
        /\ unpacked_name = None <=>
              \A k \in DOMAIN listing : ~CIStartsWith(listing[k], pkg_name)
        /\ unpacked_name # None =>
              \E k \in DOMAIN listing :
                 /\ unpacked_name = join(unpack_dir, listing[k])
                 /\ CIStartsWith(listing[k], pkg_name)
                 /\ \A j \in 1..(k - 1) : ~CIStartsWith(listing[j], pkg_name)

(* ---------------------------------------------------------------------- *)
(* C9                                                                      *)
(* ---------------------------------------------------------------------- *)
\* C9 as stated: for an archive name with an unsupported extension,
\* unpack_archive raises nothing, writes the skip notice, leaves the children
\* of the staging directory as they were, and the resolution that follows
\* returns no match.
C9_UnsupportedIsNoOp ==
    (InSteps("unpack_archive") /\ ~Supported) =>
        /\ pc = "crashed" => InSteps("validate_package")
        /\ CountMsg("bad archive extension") = 1
        /\ staging = stagingBefore
        /\ dirExists
        /\ InSteps("unpacked_archive_name") => unpacked_name = None

(* ---------------------------------------------------------------------- *)
(* C10                                                                     *)
(* ---------------------------------------------------------------------- *)
\* the text of ArchiveFormats before its first space
IsFirstFormat(f, formats) ==
    /\ Len(f) <= Len(formats)
    /\ f = SubSeq(formats, 1, Len(f))
    /\ \A k \in DOMAIN f : f[k] # " "
    /\ Len(f) < Len(formats) => formats[Len(f) + 1] = " "

\* the text of ArchiveURL after its last slash
IsLastSegment(g, u) ==
    /\ Len(g) <= Len(u)
    /\ g = SubSeq(u, Len(u) - Len(g) + 1, Len(u))
    /\ \A k \in DOMAIN g : g[k] # "/"
    /\ Len(g) < Len(u) => u[Len(u) - Len(g)] = "/"

\* C10: main() takes the first format of ArchiveFormats for the URL
\* (ArchiveURL + format) and for the local path (_archives/<last segment of
\* ArchiveURL> + format); when a file exists at that path, acquisition
\* downloads nothing, leaves the files of _archives as they are and goes on
\* to extraction; the archive hash check is made on the file at that path.
C10_FirstFormatAndNoRedownload ==
    [][ /\ pc' = "download" =>
              /\ IsFirstFormat(fmt', pkg_json'.ArchiveFormats)
              /\ url' = pkg_json'.ArchiveURL \o fmt'
              /\ LET g == SubSeq(packed_name', Len(archive_dir) + 2,
                                  Len(packed_name') - Len(fmt'))
                 IN  /\ IsLastSegment(g, pkg_json'.ArchiveURL)
                     /\ packed_name' = archive_dir \o <<"/">> \o g \o fmt'
        /\ (pc = "download" /\ ArchiveExists(packed_name)) =>
              /\ archives' = archives
              /\ fetched' = <<>>
              /\ packed_name' = packed_name
              /\ pc' = "unpack"
        /\ (pc = "validate" /\ pc' = "branch") =>
              (checks'.archive = "pass" <=>
                  \E a \in archives : /\ a.path = packed_name
                                      /\ Digest(a.bytes) = pkg_json.ArchiveSHA256)
      ]_vars

C10_Witness ==
    /\ pc = "unpack"
    /\ fetched = <<>>
    /\ CountMsg("already exists, not downloading again") = 1
    /\ pkg_json.ArchiveFormats = TarGz \o <<" ">> \o Zip
    /\ fmt = TarGz

====
